---------------------------- MODULE Spec2Model ----------------------------
(***************************************************************************)
(* Tabulating polynomial values (TAOCP 4.6.4): the iterator                *)
(* PolynomialEvaluator of src/lib.rs and the Horner evaluator `evaluate`.  *)
(*                                                                         *)
(* Vectors (coefficients, state) are functions on 0 .. n-1, so that an     *)
(* index of the model is the index of the Rust slice.  The numeric type C  *)
(* is the ring of integers; add, sub and mul are its trait operations.     *)
(* Within the bounds below no value leaves the range of i32, the type the  *)
(* tests instantiate C with, so the integer operations are the i32 ones.   *)
(***************************************************************************)
EXTENDS Integers, Sequences, FiniteSets

\* ------------------------------------------------------------- bounds ----
\* longest coefficient slice handed to new / evaluate
MaxLen == 3
\* coefficients handed to new range over -1 .. MaxCoef
MaxCoef == 1
\* initial points handed to new range over -MaxPoint .. MaxPoint
MaxPoint == 1
\* steps handed to new range over -1 .. MaxStep
MaxStep == 1
\* pulls (calls of next) on one engine
MaxPulls == 4
\* coefficients handed to a direct evaluate call range over -1 .. MaxEvalCoef
MaxEvalCoef == 3
\* points handed to a direct evaluate call range over -MaxEvalPoint .. MaxEvalPoint
MaxEvalPoint == 7

VARIABLES
    args,      \* ghost: the arguments new was called with
    state,     \* PolynomialEvaluator.state
    first,     \* PolynomialEvaluator.first
    input,     \* PolynomialEvaluator.input
    step,      \* PolynomialEvaluator.step
    written,   \* ghost: the indices of state the differencing loop of new assigned
    phase,     \* "start", "live" (an engine exists), "returned", "panicked"
    pulls,     \* ghost: the items next has returned so far, oldest first
    call,      \* the arguments of a direct call of evaluate
    result     \* what that call produced

vars == <<args, state, first, input, step, written, phase, pulls, call, result>>

\* ------------------------------------------------------ the type C -------
add(a, b) == a + b
sub(a, b) == a - b
mul(a, b) == a * b

\* coefficients.len(), self.state.len()
Len0(v) == Cardinality(DOMAIN v)

\* ------------------------------------------------------ evaluate ---------
Returned(v) == [ok |-> TRUE, val |-> v]
Panicked == [ok |-> FALSE, val |-> 0]

\* the fold of evaluate: the coefficients below the highest, from index i down
RECURSIVE HornerFold(_, _, _, _)
HornerFold(coefficients, x, i, sum) ==
    IF i < 0 THEN sum
    ELSE HornerFold(coefficients, x, i - 1, add(mul(sum, x), coefficients[i]))

\* the fold run upwards: the coefficients above index 0, from index i up
RECURSIVE HornerFoldUp(_, _, _, _)
HornerFoldUp(coefficients, x, i, sum) ==
    IF i >= Len0(coefficients) THEN sum
    ELSE HornerFoldUp(coefficients, x, i + 1, add(mul(sum, x), coefficients[i]))

\* a fold that forgets rev(): index 0 is taken for the highest coefficient
HornerNoRev(coefficients, x) ==
    IF Len0(coefficients) = 1 THEN coefficients[0]
    ELSE HornerFoldUp(coefficients, x, 1, coefficients[0])

\* a fold that forgets skip(1): the highest coefficient is folded in twice
HornerNoSkip(coefficients, x) ==
    HornerFold(coefficients, x, Len0(coefficients) - 1,
               coefficients[Len0(coefficients) - 1])

\* evaluate past its assertion
Horner(coefficients, x) ==
    IF Len0(coefficients) = 1 THEN coefficients[0]
    ELSE HornerFold(coefficients, x, Len0(coefficients) - 2,
                    coefficients[Len0(coefficients) - 1])

\* an evaluate that takes the empty polynomial for the zero polynomial
evaluateEmptyIsZero(coefficients, x) ==
    IF Len0(coefficients) = 0 THEN Returned(0)
    ELSE Returned(Horner(coefficients, x))

evaluate(coefficients, x) ==
    IF ~(Len0(coefficients) > 0) THEN Panicked
    ELSE Returned(Horner(coefficients, x))

\* ------------------------------------------------------ new --------------
\* a progression that forgets the step and moves by one
RECURSIVE SuccessorUnitStep(_, _, _)
SuccessorUnitStep(initial, h, i) ==
    IF i = 0 THEN initial ELSE add(SuccessorUnitStep(initial, h, i - 1), 1)

\* successors(Some(initial), |x| Some(x + &step)): its i-th element
RECURSIVE Successor(_, _, _)
Successor(initial, h, i) ==
    IF i = 0 THEN initial ELSE add(Successor(initial, h, i - 1), h)

\* the inner loop of new, for j in (k..n).rev(), from index j down
RECURSIVE DiffInner(_, _, _)
DiffInner(t, k, j) ==
    IF j < k THEN t
    ELSE DiffInner([s |-> [t.s EXCEPT ![j] = sub(t.s[j], t.s[j - 1])],
                    w |-> t.w \cup {j}], k, j - 1)

\* the same loop run upwards, for j in k..n, from index j up
RECURSIVE DiffInnerAscending(_, _, _, _)
DiffInnerAscending(t, k, j, n) ==
    IF j >= n THEN t
    ELSE DiffInnerAscending([s |-> [t.s EXCEPT ![j] = sub(t.s[j], t.s[j - 1])],
                             w |-> t.w \cup {j}], k, j + 1, n)

\* the outer loop of new, for k in 1..n, from order k up
RECURSIVE DiffOuter(_, _, _)
DiffOuter(t, k, n) ==
    IF k >= n THEN t ELSE DiffOuter(DiffInner(t, k, n - 1), k + 1, n)

RECURSIVE DiffOuterAscending(_, _, _)
DiffOuterAscending(t, k, n) ==
    IF k >= n THEN t
    ELSE DiffOuterAscending(DiffInnerAscending(t, k, k, n), k + 1, n)

\* a differencing whose inner loop ascends
DifferencesAscending(samples) ==
    DiffOuterAscending([s |-> samples, w |-> {}], 1, Len0(samples))

\* the differencing loops of new on the sampled values: the table and the
\* indices assigned
Differences(samples) == DiffOuter([s |-> samples, w |-> {}], 1, Len0(samples))

\* the values the map closure of new produces, one evaluate per sampled point
Samples(coefficients, initial, h) ==
    [i \in 0 .. Len0(coefficients) - 1 |->
        evaluate(coefficients, Successor(initial, h, i))]

new(coefficients, initial, h) ==
    /\ phase = "start"
    /\ args' = [coefficients |-> coefficients, initial |-> initial, step |-> h]
    /\ LET samples == Samples(coefficients, initial, h)
           n == Len0(coefficients)
       IN IF \E i \in 0 .. n - 1 : ~samples[i].ok
          THEN /\ phase' = "panicked"
               /\ UNCHANGED <<state, first, input, step, written>>
          ELSE LET t == Differences([i \in 0 .. n - 1 |-> samples[i].val])
               IN /\ state' = t.s
                  /\ written' = t.w
                  /\ first' = TRUE
                  /\ input' = initial
                  /\ step' = h
                  /\ phase' = "live"
    /\ UNCHANGED <<pulls, call, result>>

\* ------------------------------------------------------ next -------------
\* the loop of next, for j in 0..len-1, from index j up
RECURSIVE AdvanceFrom(_, _)
AdvanceFrom(s, j) ==
    IF j >= Len0(s) - 1 THEN s
    ELSE AdvanceFrom([s EXCEPT ![j] = add(s[j], s[j + 1])], j + 1)

\* the same loop run downwards, from index j down
RECURSIVE AdvanceDown(_, _)
AdvanceDown(s, j) ==
    IF j < 0 THEN s
    ELSE AdvanceDown([s EXCEPT ![j] = add(s[j], s[j + 1])], j - 1)

\* an advance whose loop descends
AdvanceDescending(s) == AdvanceDown(s, Len0(s) - 2)

Advance(s) == AdvanceFrom(s, 0)

\* a step of the point that is lost
StepInputStuck(x, h) == x

\* a step of the point that subtracts
StepInputBackwards(x, h) == sub(x, h)

\* self.input = &self.input + &self.step
StepInput(x, h) == add(x, h)

\* an update that advances on the first pull too
NextFieldsAlwaysAdvance(s, f, x, h) ==
    [state |-> Advance(s), first |-> FALSE, input |-> StepInput(x, h)]

\* the fields next leaves behind, before it builds its item
NextFields(s, f, x, h) ==
    IF f THEN [state |-> s, first |-> FALSE, input |-> x]
    ELSE [state |-> Advance(s), first |-> FALSE, input |-> StepInput(x, h)]

\* Iterator::next.  An engine with an empty state panics: on the first pull at
\* self.state[0], after first is cleared; on a later one already at
\* self.state.len() - 1 or at self.state[0] inside the loop, whatever the build.
next ==
    /\ phase = "live"
    /\ Len(pulls) < MaxPulls
    /\ IF Len0(state) = 0
       THEN /\ phase' = "panicked"
            /\ first' = FALSE
            /\ UNCHANGED <<state, input, pulls>>
       ELSE LET f == NextFields(state, first, input, step)
            IN /\ state' = f.state
               /\ first' = f.first
               /\ input' = f.input
               /\ pulls' = Append(pulls, <<f.input, f.state[0]>>)
               /\ UNCHANGED phase
    /\ UNCHANGED <<args, step, written, call, result>>

\* ------------------------------------------------------ inputs -----------
Vectors(vals) == UNION {[0 .. n - 1 -> vals] : n \in 0 .. MaxLen}

\* the polynomial of the tests, 1 + 2x + 3x^2
TestPolynomial == [i \in 0 .. 2 |-> i + 1]

\* the engines of test_polynomial_evaluator
TestEngines == {<<TestPolynomial, 0, 1>>, <<TestPolynomial, 7, 5>>}

Engines ==
    (Vectors((-1) .. MaxCoef) \X ((-MaxPoint) .. MaxPoint) \X ((-1) .. MaxStep))
        \cup TestEngines

NoArgs == [coefficients |-> <<>>, initial |-> 0, step |-> 0]
NoCall == [coefficients |-> <<>>, input |-> 0]

Init ==
    /\ args = NoArgs
    /\ state = <<>>
    /\ first = FALSE
    /\ input = 0
    /\ step = 0
    /\ written = {}
    /\ phase = "start"
    /\ pulls = <<>>
    /\ call = NoCall
    /\ result = Panicked

Next ==
    \/ \E e \in Engines : new(e[1], e[2], e[3])
    \/ next

Spec == Init /\ [][Next]_vars

\* ------------------------------------------- direct calls of evaluate ----
EvalInit ==
    /\ args = NoArgs
    /\ state = <<>>
    /\ first = FALSE
    /\ input = 0
    /\ step = 0
    /\ written = {}
    /\ phase = "start"
    /\ pulls = <<>>
    /\ call \in [coefficients : Vectors((-1) .. MaxEvalCoef),
                 input : (-MaxEvalPoint) .. MaxEvalPoint]
    /\ result = Panicked

Evaluate ==
    /\ phase = "start"
    /\ result' = evaluate(call.coefficients, call.input)
    /\ phase' = IF result'.ok THEN "returned" ELSE "panicked"
    /\ UNCHANGED <<args, state, first, input, step, written, pulls, call>>

EvalNext == Evaluate

SpecEval == EvalInit /\ [][EvalNext]_vars

\* ------------------------------------------- reference mathematics -------
\* x^n by repeated multiplication
RECURSIVE Pow(_, _)
Pow(x, n) == IF n = 0 THEN 1 ELSE x * Pow(x, n - 1)

\* coefficients[0] * x^0 + ... + coefficients[i] * x^i
RECURSIVE PowerSumTo(_, _, _)
PowerSumTo(coefficients, x, i) ==
    IF i < 0 THEN 0
    ELSE coefficients[i] * Pow(x, i) + PowerSumTo(coefficients, x, i - 1)

\* the polynomial as a sum of powers: sum of coefficients[i] * x^i
PowerSum(coefficients, x) == PowerSumTo(coefficients, x, Len0(coefficients) - 1)

\* Pascal's rule
RECURSIVE Binomial(_, _)
Binomial(n, k) ==
    IF k < 0 \/ k > n THEN 0
    ELSE IF k = 0 \/ k = n THEN 1
    ELSE Binomial(n - 1, k - 1) + Binomial(n - 1, k)

\* the terms i' = 0 .. i of the j-th finite difference
RECURSIVE FiniteDifferenceTo(_, _, _, _, _)
FiniteDifferenceTo(j, coefficients, x, h, i) ==
    IF i < 0 THEN 0
    ELSE Pow(-1, j - i) * Binomial(j, i) * PowerSum(coefficients, x + i * h)
         + FiniteDifferenceTo(j, coefficients, x, h, i - 1)

\* the j-th finite difference of the samples P(x), P(x + h), ..., P(x + j*h):
\* the sum over i = 0..j of (-1)^(j-i) * binomial(j, i) * P(x + i*h)
FiniteDifference(j, coefficients, x, h) ==
    FiniteDifferenceTo(j, coefficients, x, h, j)

\* s is the difference table of the polynomial at x with step h
TableAt(s, coefficients, x, h) ==
    \A j \in DOMAIN s : s[j] = FiniteDifference(j, coefficients, x, h)

PointOf(item) == item[1]
ValueOf(item) == item[2]
NumCoefficients == Len0(args.coefficients)
\* this step is a pull that returned an item
Pulled == pulls' # pulls

\* ------------------------------------------------------ claims -----------

\* C1: every item (x, y) that next returns on an engine built from a
\* non-empty coefficient slice satisfies y = evaluate(coefficients, x), on the
\* first pull and on every later one.
PulledValueIsEvaluate ==
    NumCoefficients >= 1 =>
        \A k \in 1 .. Len(pulls) :
            evaluate(args.coefficients, PointOf(pulls[k])) = Returned(ValueOf(pulls[k]))

\* the second test engine (1 + 2x + 3x^2 from 7 by 5), pulled MaxPulls times
PulledValueIsEvaluateReached ==
    /\ phase = "live"
    /\ args = [coefficients |-> TestPolynomial, initial |-> 7, step |-> 5]
    /\ Len(pulls) = MaxPulls
    /\ ValueOf(pulls[2]) = 457

\* C2: evaluate on a non-empty coefficient slice returns the sum of
\* coefficients[i] * p^i, index 0 being the constant term.
EvaluateIsPowerSum ==
    (phase # "start" /\ Len0(call.coefficients) >= 1) =>
        /\ phase = "returned"
        /\ result = Returned(PowerSum(call.coefficients, call.input))

\* test_evaluation: evaluate([1, 2, 3], 7) = 162
EvaluateIsPowerSumReached ==
    /\ phase = "returned"
    /\ call = [coefficients |-> TestPolynomial, input |-> 7]
    /\ result = Returned(162)

\* C3: new on an empty coefficient slice fails at construction, so that no
\* engine built from an empty slice ever exists.
NewOnEmptyFails == NumCoefficients = 0 => phase # "live"

\* C4 as stated: on one engine, two distinct pulls never return the same item.
PullsNeverRepeat ==
    \A i \in 1 .. Len(pulls) : \A j \in 1 .. Len(pulls) :
        i < j => pulls[i] # pulls[j]

\* C4 as amended: on an engine whose step is not zero, two distinct pulls
\* never return the same item (their points differ).
PullsNeverRepeatForNonzeroStep ==
    args.step # 0 =>
        \A i \in 1 .. Len(pulls) : \A j \in 1 .. Len(pulls) :
            i < j => pulls[i] # pulls[j]

\* two pulls with a non-zero step whose values agree and whose points do not
PullsNeverRepeatReached ==
    /\ phase = "live"
    /\ step # 0
    /\ Len(pulls) >= 2
    /\ ValueOf(pulls[1]) = ValueOf(pulls[2])
    /\ PointOf(pulls[1]) # PointOf(pulls[2])

\* C5: the k-th pull (from k = 0) returns the point x0 + k*h; the first pull
\* returns x0, each later pull adds the step once to input, and the step
\* field keeps the value new was given.
PullPointIsProgression ==
    phase = "live" =>
        /\ step = args.step
        /\ input = args.initial + (IF pulls = <<>> THEN 0 ELSE Len(pulls) - 1) * args.step
        /\ \A k \in 1 .. Len(pulls) :
               PointOf(pulls[k]) = args.initial + (k - 1) * args.step

\* MaxPulls pulls with a negative step from a non-zero point
PullPointIsProgressionReached ==
    /\ phase = "live"
    /\ Len(pulls) = MaxPulls
    /\ args.step = -1
    /\ args.initial = 1
    /\ input = 1 - (MaxPulls - 1)

\* C6: evaluate on an empty coefficient slice panics at its assertion and
\* returns no value, whatever the point.
EvaluateEmptyPanics ==
    (phase # "start" /\ Len0(call.coefficients) = 0) =>
        /\ phase = "panicked"
        /\ ~result.ok

\* evaluate was called on the empty slice at a non-zero point
EvaluateEmptyPanicsReached ==
    /\ phase = "panicked"
    /\ Len0(call.coefficients) = 0
    /\ call.input = 7

\* C7: on an engine built from a single coefficient c every pull returns the
\* value c; the state keeps length 1 and its only entry stays c.
DegreeZeroIsConstant ==
    (phase = "live" /\ NumCoefficients = 1) =>
        /\ Len0(state) = 1
        /\ state[0] = args.coefficients[0]
        /\ \A k \in 1 .. Len(pulls) : ValueOf(pulls[k]) = args.coefficients[0]

\* a non-zero constant pulled MaxPulls times along a non-zero step
DegreeZeroIsConstantReached ==
    /\ phase = "live"
    /\ NumCoefficients = 1
    /\ args.coefficients[0] = -1
    /\ args.initial = 1
    /\ step = 1
    /\ Len(pulls) = MaxPulls

\* C8: right after new on n >= 1 coefficients the state has length n,
\* state[j] is the j-th finite difference of the samples P(x0 + i*h), i.e.
\* the sum over i = 0..j of (-1)^(j-i) * binomial(j, i) * P(x0 + i*h);
\* state[0] = P(x0), and the differencing loop never assigns index 0.
NewBuildsDifferenceTable ==
    (phase = "live" /\ first /\ NumCoefficients >= 1) =>
        /\ Len0(state) = NumCoefficients
        /\ DOMAIN state = 0 .. NumCoefficients - 1
        /\ TableAt(state, args.coefficients, args.initial, args.step)
        /\ state[0] = PowerSum(args.coefficients, args.initial)
        /\ 0 \notin written

\* the freshly built table of the second test engine, whose second
\* difference is not zero
NewBuildsDifferenceTableReached ==
    /\ phase = "live"
    /\ first
    /\ args = [coefficients |-> TestPolynomial, initial |-> 7, step |-> 5]
    /\ state[1] # 0
    /\ state[2] # 0
    /\ written = {1, 2}

\* C9: a pull after the first turns the difference table at input into the
\* difference table at input + step: state[j] becomes the old state[j] + the
\* old state[j+1] for j <= n-2, state[n-1] and the length stay; and in every
\* state of an engine state[0] = P(input).
PullPreservesDifferenceTable ==
    /\ [][(phase = "live" /\ ~first /\ Pulled
            /\ TableAt(state, args.coefficients, input, step)) =>
           (/\ DOMAIN state' = DOMAIN state
            /\ input' = input + step
            /\ TableAt(state', args.coefficients, input', step')
            /\ \A j \in DOMAIN state :
                   state'[j] = IF j <= Len0(state) - 2
                               THEN state[j] + state[j + 1]
                               ELSE state[j])]_vars
    /\ []((phase = "live" /\ NumCoefficients >= 1) =>
            /\ TableAt(state, args.coefficients, input, step)
            /\ state[0] = PowerSum(args.coefficients, input))

\* a quadratic with a non-zero second difference, advanced twice
PullPreservesDifferenceTableReached ==
    /\ phase = "live"
    /\ ~first
    /\ Len(pulls) = 3
    /\ NumCoefficients = 3
    /\ step # 0
    /\ state[2] # 0
    /\ state[0] # ValueOf(pulls[2])

\* C10: the first pull returns (x0, P(x0)) and leaves state, input and step
\* as new built them, clearing first; first is true exactly until the first
\* pull and false ever after.
FirstPullOnlyClearsFirst ==
    /\ [][(phase = "live" /\ first /\ Pulled) =>
           (/\ state' = state
            /\ input' = input
            /\ step' = step
            /\ ~first'
            /\ pulls' = <<<<args.initial, PowerSum(args.coefficients, args.initial)>>>>)]_vars
    /\ [][(phase = "live" /\ ~first) => ~first']_vars
    /\ []((phase = "live" /\ NumCoefficients >= 1) => (first <=> pulls = <<>>))

\* the first pull on a quadratic with a non-zero step has returned
FirstPullOnlyClearsFirstReached ==
    /\ phase = "live"
    /\ ~first
    /\ Len(pulls) = 1
    /\ NumCoefficients = 3
    /\ step # 0
    /\ state[1] # 0
    /\ input = args.initial

=============================================================================
